---- MODULE Spec2Model ----
(***************************************************************************)
(* Model of the billiard-hall scoreboard API (src/server.js).  The state   *)
(* is the content of the two MySQL relations the handlers touch (tables    *)
(* and games) plus the last request and its HTTP response.  One action    *)
(* per request handler; in the specification Spec every handler runs to    *)
(* completion before the next one starts (non-overlapping requests); in    *)
(* SpecConc up to MaxCalls requests overlap and every awaited query of a   *)
(* handler is a step of its own.                                           *)
(***************************************************************************)
EXTENDS Integers, Sequences, FiniteSets, TLC

VARIABLES
  tables,   \* table_num -> row of relation `tables`
  games,    \* rows of relation `games`, in insertion order
  res,      \* the HTTP response sent for the last request
  setup,    \* history: table_num -> how far the set-up sequence has run
  steps,    \* number of requests handled so far
  req,      \* the last request: its operation and table number
  calls,    \* overlapping requests: call id -> handler, locals and position
  hist      \* history: table_num -> what happened since the last reset

vars == <<tables, games, res, setup, steps, req, calls, hist>>

----------------------------------------------------------------------------
(* Bounds of the model *)

MaxTarget == 1
MaxScore == 2
MaxSteps == 6
MaxCalls == 3

(* Program constants *)

DefaultTarget1 == 25
DefaultTarget2 == 20

(* SQL NULL, also what the driver writes for an undefined parameter *)
NULL == "NULL"

(* The pre-provisioned rows of `tables`, and the table numbers clients send *)
Tables == {5}
TableNumInputs == {5, 6}
Nicknames == {"Kim", "Lee"}
Colors == {"red", "white"}
Targets == {MaxTarget}
Scores == 0..MaxScore
(* Values NOW() may return *)
Times == {"t1"}

----------------------------------------------------------------------------
(* Request bodies: records; an optional field is absent from the record *)

Has(b, f) == f \in DOMAIN b

(* const { f = d } = req.body *)
Field(b, f, d) == IF Has(b, f) THEN b[f] ELSE d

(* what is kept of a request: the operation, and the table number if sent *)
Request(name, b) ==
  IF Has(b, "tableNum") THEN [op |-> name, tableNum |-> b.tableNum]
  ELSE [op |-> name]

(* a query parameter: undefined is sent as NULL *)
SqlParam(b, f) == IF Has(b, f) THEN b[f] ELSE NULL

CreateRoomBodies ==
  [tableNum : TableNumInputs, nickname : Nicknames, target : Targets]
    \cup [tableNum : TableNumInputs, nickname : Nicknames]
    \cup [tableNum : TableNumInputs]
    \cup [nickname : Nicknames]

JoinRoomBodies ==
  [tableNum : TableNumInputs, nickname : Nicknames]
    \cup [tableNum : TableNumInputs]

ApproveJoinBodies ==
  [tableNum : TableNumInputs, target : Targets]
    \cup [tableNum : TableNumInputs]

SetColorsBodies == [tableNum : TableNumInputs, color1 : Colors, color2 : Colors]

UpdateScoreBodies == [tableNum : TableNumInputs, score : Scores]

TableBodies == [tableNum : TableNumInputs]

----------------------------------------------------------------------------
(* The store *)

ZeroTable ==
  [status |-> "available", player1 |-> NULL, player2 |-> NULL,
   score1 |-> 0, score2 |-> 0, target1 |-> 0, target2 |-> 0,
   color1 |-> NULL, color2 |-> NULL, currentTurn |-> NULL,
   inning |-> 0, startTime |-> NULL]

(* SELECT ... FROM tables WHERE table_num = t *)
Rows(t) == IF t \in Tables THEN <<tables[t]>> ELSE << >>

(* UPDATE tables SET ... WHERE table_num = t *)
(* newRow is the matching row with the SET clause applied *)
UpdateTables(t, newRow) ==
  [n \in Tables |-> IF n = t THEN newRow ELSE tables[n]]

(* Responses: the status code and the JSON body; message is an identifier *)
(* standing for the handler's message text                               *)
Ok(msg) == [status |-> 200, success |-> TRUE, message |-> msg]
Err(code, msg) == [status |-> code, success |-> FALSE, message |-> msg]

NoResponse == [status |-> 0, success |-> FALSE, message |-> "none"]

(* The error kind of a response: the taxonomy applied to the status code   *)
(* and message the handler sent                                            *)
Kind(r) ==
  IF r.success THEN "None"
  ELSE IF r.status = 404 THEN "NotFound"
  ELSE IF r.status = 500 THEN "StoreFailure"
  ELSE IF r.message = "FieldsRequired" THEN "InvalidInput"
  ELSE "InvalidState"

----------------------------------------------------------------------------
(* History of the set-up sequence createRoom, joinRoom, approveJoin,       *)
(* setColors on a table; "game" while only updateScore and nextTurn follow *)

Track(t, call, ok) ==
  [n \in Tables |->
     IF n # t THEN setup[n]
     ELSE IF call = "createRoom" /\ ok /\ tables[n].status = "available"
            THEN "created"
     ELSE IF call = "joinRoom" /\ ok /\ setup[n] = "created" THEN "joined"
     ELSE IF call = "approveJoin" /\ setup[n] = "joined" THEN "approved"
     ELSE IF call = "setColors" /\ setup[n] = "approved" THEN "game"
     ELSE IF call \in {"updateScore", "nextTurn"} /\ setup[n] = "game"
            THEN "game"
     ELSE "none"]

----------------------------------------------------------------------------
(* Overlapping requests: a call that has not started yet *)

CallIds == 1..MaxCalls

IdleCall == [op |-> "none", body |-> NULL, pc |-> "idle", row |-> NULL,
             res |-> NoResponse]

(* History of a table since its last reset: the nicknames whose createRoom *)
(* succeeded, whether setColors has started a game, and the number of game *)
(* records inserted for the table since that setColors                     *)
HistOf(row) ==
  [creators |-> IF row.status = "available" THEN << >> ELSE <<row.player1>>,
   inGame |-> row.status = "occupied",
   appended |-> 0]

----------------------------------------------------------------------------
Init ==
  /\ calls = [i \in CallIds |-> IdleCall]
  /\ hist = [n \in Tables |-> HistOf(ZeroTable)]
  /\ tables = [n \in Tables |-> ZeroTable]
  /\ games = << >>
  /\ res = NoResponse
  /\ setup = [n \in Tables |-> "none"]
  /\ steps = 0
  /\ req = [op |-> "none"]

(* POST /api/createRoom *)
InUse_OnlyOccupied(row) == row.status = "occupied"

InUse(row) == row.status # "available"

CreateRoomRow(row, nickname, target) ==
  [row EXCEPT !.status = "waiting", !.player1 = nickname, !.target1 = target]

CreateRoom(b) ==
  /\ req' = Request("createRoom", b)
  /\ LET target == Field(b, "target", DefaultTarget1) IN
     IF ~Has(b, "tableNum") \/ ~Has(b, "nickname")
     THEN /\ res' = Err(400, "FieldsRequired")
          /\ UNCHANGED <<tables, games>>
          /\ setup' = IF Has(b, "tableNum")
                        THEN Track(b.tableNum, "createRoom", FALSE) ELSE setup
     ELSE LET rows == Rows(b.tableNum) IN
          IF Len(rows) = 0
          THEN /\ res' = Err(404, "NoSuchTable")
               /\ UNCHANGED <<tables, games, setup>>
          ELSE IF InUse(rows[1])
          THEN /\ res' = Err(400, "TableInUse")
               /\ UNCHANGED <<tables, games>>
               /\ setup' = Track(b.tableNum, "createRoom", FALSE)
          ELSE /\ res' = Ok("RoomCreated")
               /\ tables' = UpdateTables(b.tableNum,
                              CreateRoomRow(tables[b.tableNum], b.nickname, target))
               /\ setup' = Track(b.tableNum, "createRoom", TRUE)
               /\ UNCHANGED games

(* POST /api/joinRoom *)
JoinRoomRow_Occupies(row, nickname) ==
  [row EXCEPT !.player2 = nickname, !.status = "occupied"]

JoinRoomRow_KeepsFirst(row, nickname) ==
  IF row.player2 = NULL THEN [row EXCEPT !.player2 = nickname] ELSE row

JoinRoomRow(row, nickname) == [row EXCEPT !.player2 = nickname]

JoinRoom(b) ==
  /\ req' = Request("joinRoom", b)
  /\ LET rows == Rows(b.tableNum) IN
     IF Len(rows) = 0 \/ rows[1].status # "waiting"
     THEN /\ res' = Err(400, "CannotJoin")
          /\ setup' = Track(b.tableNum, "joinRoom", FALSE)
          /\ UNCHANGED <<tables, games>>
     ELSE /\ res' = Ok("JoinRequested")
          /\ tables' = UpdateTables(b.tableNum,
                         JoinRoomRow(tables[b.tableNum], SqlParam(b, "nickname")))
          /\ setup' = Track(b.tableNum, "joinRoom", TRUE)
          /\ UNCHANGED games

(* POST /api/approveJoin *)
ApproveJoinRow(row, target) == [row EXCEPT !.target2 = target]

ApproveJoin(b) ==
  LET target == Field(b, "target", DefaultTarget2) IN
  /\ req' = Request("approveJoin", b)
  /\ res' = Ok("JoinApproved")
  /\ tables' = UpdateTables(b.tableNum, ApproveJoinRow(tables[b.tableNum], target))
  /\ setup' = Track(b.tableNum, "approveJoin", TRUE)
  /\ UNCHANGED games

(* POST /api/setColors *)
Starter_Inverted(color2) == IF color2 = "white" THEN "player1" ELSE "player2"

Starter(color2) == IF color2 = "white" THEN "player2" ELSE "player1"

SetColorsRow(row, color1, color2, starter, now) ==
  [row EXCEPT !.status = "occupied", !.color1 = color1, !.color2 = color2,
              !.currentTurn = starter, !.inning = 1, !.startTime = now]

SetColors(b) ==
  LET starter == Starter(b.color2) IN
  /\ req' = Request("setColors", b)
  /\ res' = [status |-> 200, success |-> TRUE, message |-> "GameStarted",
             currentTurn |-> starter]
  /\ \E now \in Times :
       tables' = UpdateTables(b.tableNum,
                   SetColorsRow(tables[b.tableNum], b.color1, b.color2, starter, now))
  /\ setup' = Track(b.tableNum, "setColors", TRUE)
  /\ UNCHANGED games

(* POST /api/updateScore *)
ScoreColumn_Swapped(currentTurn) ==
  IF currentTurn = "player1" THEN "score2" ELSE "score1"

ScoreColumn(currentTurn) == IF currentTurn = "player1" THEN "score1" ELSE "score2"

UpdateScoreRow_Adds(row, col, score) == [row EXCEPT ![col] = @ + score]

UpdateScoreRow(row, col, score) == [row EXCEPT ![col] = score]

UpdateScore(b) ==
  /\ req' = Request("updateScore", b)
  /\ LET rows == Rows(b.tableNum) IN
     IF Len(rows) = 0
     THEN \* rows[0] is undefined: the TypeError is caught
          /\ res' = Err(500, "UpdateScoreFailed")
          /\ UNCHANGED <<tables, games, setup>>
     ELSE LET col == ScoreColumn(rows[1].currentTurn) IN
          /\ res' = Ok("ScoreUpdated")
          /\ tables' = UpdateTables(b.tableNum,
                         UpdateScoreRow(tables[b.tableNum], col, b.score))
          /\ setup' = Track(b.tableNum, "updateScore", TRUE)
          /\ UNCHANGED games

(* POST /api/nextTurn *)
(* the win check: the winner reported, NULL when the game goes on *)
WinCheck_Player2First(table) ==
  IF table.score2 >= table.target2 THEN "player2"
  ELSE IF table.score1 >= table.target1 THEN "player1"
  ELSE NULL

WinCheck(table) ==
  IF table.score1 >= table.target1 THEN "player1"
  ELSE IF table.score2 >= table.target2 THEN "player2"
  ELSE NULL

GameOver(winner) ==
  [status |-> 200, success |-> TRUE, gameOver |-> TRUE, winner |-> winner]

TurnPassed ==
  [status |-> 200, success |-> TRUE, gameOver |-> FALSE, message |-> "TurnPassed"]

NextTurnOf(table) == IF table.currentTurn = "player1" THEN "player2" ELSE "player1"

NextInningOf_EveryTurn(table, nextTurn) == table.inning + 1

NextInningOf(table, nextTurn) ==
  IF nextTurn = "player1" THEN table.inning + 1 ELSE table.inning

NextTurnRow_FromStoredRow(row, nextTurn, nextInning) ==
  [row EXCEPT !.currentTurn = NextTurnOf(row),
              !.inning = NextInningOf(row, NextTurnOf(row))]

NextTurnRow(row, nextTurn, nextInning) ==
  [row EXCEPT !.currentTurn = nextTurn, !.inning = nextInning]

NextTurn(b) ==
  /\ req' = Request("nextTurn", b)
  /\ LET rows == Rows(b.tableNum) IN
     IF Len(rows) = 0
     THEN \* table is undefined: the TypeError is caught
          /\ res' = Err(500, "NextTurnFailed")
          /\ UNCHANGED <<tables, games, setup>>
     ELSE LET table == rows[1]
              winner == WinCheck(table)
              nextTurn == NextTurnOf(table)
              nextInning == NextInningOf(table, nextTurn)
          IN  IF winner # NULL
              THEN /\ res' = GameOver(winner)
                   /\ setup' = Track(b.tableNum, "nextTurn", TRUE)
                   /\ UNCHANGED <<tables, games>>
              ELSE /\ res' = TurnPassed
                   /\ tables' = UpdateTables(b.tableNum,
                                  NextTurnRow(tables[b.tableNum], nextTurn, nextInning))
                   /\ setup' = Track(b.tableNum, "nextTurn", TRUE)
                   /\ UNCHANGED games

(* POST /api/endGame *)
EndGameWinner_Player2First(table) ==
  IF table.score2 >= table.target2 THEN table.player2 ELSE table.player1

EndGameWinner(table) ==
  IF table.score1 >= table.target1 THEN table.player1 ELSE table.player2

GameRecord_ScoresSwapped(t, table, winner) ==
  [tableNum |-> t, player1 |-> table.player1, player2 |-> table.player2,
   score1 |-> table.score2, score2 |-> table.score1, winner |-> winner,
   startTime |-> table.startTime]

GameRecord(t, table, winner) ==
  [tableNum |-> t, player1 |-> table.player1, player2 |-> table.player2,
   score1 |-> table.score1, score2 |-> table.score2, winner |-> winner,
   startTime |-> table.startTime]

ResetRow_KeepsTargets(row) ==
  [ZeroTable EXCEPT !.target1 = row.target1, !.target2 = row.target2]

ResetRow(row) == ZeroTable

EndGame(b) ==
  /\ req' = Request("endGame", b)
  /\ LET rows == Rows(b.tableNum) IN
     IF Len(rows) = 0
     THEN \* table is undefined: the TypeError is caught
          /\ res' = Err(500, "EndGameFailed")
          /\ UNCHANGED <<tables, games, setup>>
     ELSE LET table == rows[1]
              winner == EndGameWinner(table)
          IN  /\ res' = Ok("GameEnded")
              /\ games' = Append(games, GameRecord(b.tableNum, table, winner))
              /\ tables' = UpdateTables(b.tableNum, ResetRow(tables[b.tableNum]))
              /\ setup' = Track(b.tableNum, "endGame", TRUE)

(* POST /api/cancelRoom *)
CancelRoom(b) ==
  /\ req' = Request("cancelRoom", b)
  /\ res' = Ok("RoomCancelled")
  /\ tables' = UpdateTables(b.tableNum, ResetRow(tables[b.tableNum]))
  /\ setup' = Track(b.tableNum, "cancelRoom", TRUE)
  /\ UNCHANGED games

(* requests are handled one at a time, MaxSteps of them *)
Counted == steps < MaxSteps /\ steps' = steps + 1 /\ UNCHANGED <<calls, hist>>

Next ==
  \/ Counted /\ \E b \in CreateRoomBodies : CreateRoom(b)
  \/ Counted /\ \E b \in JoinRoomBodies : JoinRoom(b)
  \/ Counted /\ \E b \in ApproveJoinBodies : ApproveJoin(b)
  \/ Counted /\ \E b \in SetColorsBodies : SetColors(b)
  \/ Counted /\ \E b \in UpdateScoreBodies : UpdateScore(b)
  \/ Counted /\ \E b \in TableBodies : NextTurn(b)
  \/ Counted /\ \E b \in TableBodies : EndGame(b)
  \/ Counted /\ \E b \in TableBodies : CancelRoom(b)

Spec == Init /\ [][Next]_vars

----------------------------------------------------------------------------
(* Overlapping requests.  A handler is suspended at every await: each      *)
(* pool.query is one step, the code between two queries runs with the      *)
(* later one.  The response is sent with the handler's last step.          *)

(* rows the non-overlapping requests leave a table in: a fresh table and   *)
(* the stages of one set-up sequence                                       *)
WaitingRow == CreateRoomRow(ZeroTable, "Kim", MaxTarget)
JoinedRow == JoinRoomRow(WaitingRow, "Lee")
ApprovedRow == ApproveJoinRow(JoinedRow, MaxTarget)
PlayingRow == SetColorsRow(ApprovedRow, "white", "red", Starter("red"), "t1")

StartRows == {ZeroTable, WaitingRow, JoinedRow, ApprovedRow, PlayingRow}

InitConc ==
  /\ \E row \in StartRows :
       /\ tables = [n \in Tables |-> row]
       /\ hist = [n \in Tables |-> HistOf(row)]
  /\ games = << >>
  /\ calls = [i \in CallIds |-> IdleCall]
  /\ res = NoResponse
  /\ setup = [n \in Tables |-> "none"]
  /\ steps = 0
  /\ req = [op |-> "none"]

(* bodies of the overlapping requests: complete, naming an existing table *)
ConcCreateRoomBodies == [tableNum : Tables, nickname : Nicknames, target : Targets]
ConcJoinRoomBodies == [tableNum : Tables, nickname : Nicknames]
ConcApproveJoinBodies == [tableNum : Tables, target : Targets]
ConcSetColorsBodies == [tableNum : Tables, color1 : {"red"}, color2 : Colors]
ConcUpdateScoreBodies == [tableNum : Tables, score : {MaxScore}]
ConcTableBodies == [tableNum : Tables]

(* call i is accepted: calls are numbered in the order they arrive *)
Arrives(i) ==
  /\ calls[i].pc = "idle"
  /\ IF i = 1 THEN TRUE ELSE calls[i - 1].pc # "idle"

(* call i of handler name is suspended at pc *)
At(i, name, pc) == calls[i].op = name /\ calls[i].pc = pc

Suspended(name, b, pc, row) ==
  [op |-> name, body |-> b, pc |-> pc, row |-> row, res |-> NoResponse]

Responded(call, response) == [call EXCEPT !.pc = "done", !.res = response]

Sequential == UNCHANGED <<res, setup, steps, req>>

(* SELECT cols FROM tables: the selected columns of a row *)
Columns(row, cols) == [c \in cols |-> row[c]]

(* the history after a reset of table t *)
HistReset(t) == [hist EXCEPT ![t].creators = << >>, ![t].inGame = FALSE]

(* createRoom: SELECT status, then UPDATE *)
CreateRoomSelect(i, b) ==
  /\ Arrives(i)
  /\ LET rows == Rows(b.tableNum) IN
     IF InUse(rows[1])
     THEN calls' = [calls EXCEPT ![i] =
                      Responded(Suspended("createRoom", b, "idle", Columns(rows[1], {"status"})),
                                Err(400, "TableInUse"))]
     ELSE calls' = [calls EXCEPT ![i] =
                      Suspended("createRoom", b, "selected", Columns(rows[1], {"status"}))]
  /\ UNCHANGED <<tables, games, hist>>
  /\ Sequential

CreateRoomUpdate(i) ==
  /\ At(i, "createRoom", "selected")
  /\ LET b == calls[i].body
         target == Field(b, "target", DefaultTarget1)
     IN  /\ tables' = UpdateTables(b.tableNum,
                        CreateRoomRow(tables[b.tableNum], b.nickname, target))
         /\ hist' = [hist EXCEPT ![b.tableNum].creators = Append(@, b.nickname)]
  /\ calls' = [calls EXCEPT ![i] = Responded(@, Ok("RoomCreated"))]
  /\ UNCHANGED games
  /\ Sequential

(* joinRoom: SELECT status, then UPDATE *)
JoinRoomSelect(i, b) ==
  /\ Arrives(i)
  /\ LET rows == Rows(b.tableNum) IN
     IF Len(rows) = 0 \/ rows[1].status # "waiting"
     THEN calls' = [calls EXCEPT ![i] =
                      Responded(Suspended("joinRoom", b, "idle", Columns(rows[1], {"status"})),
                                Err(400, "CannotJoin"))]
     ELSE calls' = [calls EXCEPT ![i] =
                      Suspended("joinRoom", b, "selected", Columns(rows[1], {"status"}))]
  /\ UNCHANGED <<tables, games, hist>>
  /\ Sequential

JoinRoomUpdate(i) ==
  /\ At(i, "joinRoom", "selected")
  /\ LET b == calls[i].body IN
     tables' = UpdateTables(b.tableNum,
                 JoinRoomRow(tables[b.tableNum], SqlParam(b, "nickname")))
  /\ calls' = [calls EXCEPT ![i] = Responded(@, Ok("JoinRequested"))]
  /\ UNCHANGED <<games, hist>>
  /\ Sequential

(* approveJoin: one UPDATE *)
ApproveJoinUpdate(i, b) ==
  /\ Arrives(i)
  /\ LET target == Field(b, "target", DefaultTarget2) IN
     tables' = UpdateTables(b.tableNum, ApproveJoinRow(tables[b.tableNum], target))
  /\ calls' = [calls EXCEPT ![i] =
                 Responded(Suspended("approveJoin", b, "idle", NULL),
                           Ok("JoinApproved"))]
  /\ UNCHANGED <<games, hist>>
  /\ Sequential

(* setColors: one UPDATE *)
SetColorsUpdate(i, b) ==
  /\ Arrives(i)
  /\ LET starter == Starter(b.color2) IN
     /\ \E now \in Times :
          tables' = UpdateTables(b.tableNum,
                      SetColorsRow(tables[b.tableNum], b.color1, b.color2,
                                   starter, now))
     /\ calls' = [calls EXCEPT ![i] =
                    Responded(Suspended("setColors", b, "idle", NULL),
                              [status |-> 200, success |-> TRUE,
                               message |-> "GameStarted",
                               currentTurn |-> starter])]
  /\ hist' = [hist EXCEPT ![b.tableNum].inGame = TRUE,
                          ![b.tableNum].appended = 0]
  /\ UNCHANGED games
  /\ Sequential

(* updateScore: SELECT current_turn, then UPDATE *)
UpdateScoreSelect(i, b) ==
  /\ Arrives(i)
  /\ LET rows == Rows(b.tableNum) IN
     calls' = [calls EXCEPT ![i] =
                 Suspended("updateScore", b, "selected",
                           Columns(rows[1], {"currentTurn"}))]
  /\ UNCHANGED <<tables, games, hist>>
  /\ Sequential

UpdateScoreUpdate(i) ==
  /\ At(i, "updateScore", "selected")
  /\ LET b == calls[i].body
         col == ScoreColumn(calls[i].row.currentTurn)
     IN  tables' = UpdateTables(b.tableNum,
                     UpdateScoreRow(tables[b.tableNum], col, b.score))
  /\ calls' = [calls EXCEPT ![i] = Responded(@, Ok("ScoreUpdated"))]
  /\ UNCHANGED <<games, hist>>
  /\ Sequential

(* nextTurn: SELECT the turn, scores, targets and inning, then UPDATE *)
NextTurnColumns ==
  {"currentTurn", "score1", "score2", "target1", "target2", "inning"}

NextTurnSelect(i, b) ==
  /\ Arrives(i)
  /\ LET rows == Rows(b.tableNum)
         table == Columns(rows[1], NextTurnColumns)
         winner == WinCheck(table)
     IN  IF winner # NULL
         THEN calls' = [calls EXCEPT ![i] =
                          Responded(Suspended("nextTurn", b, "idle", table),
                                    GameOver(winner))]
         ELSE calls' = [calls EXCEPT ![i] =
                          Suspended("nextTurn", b, "selected", table)]
  /\ UNCHANGED <<tables, games, hist>>
  /\ Sequential

NextTurnUpdate(i) ==
  /\ At(i, "nextTurn", "selected")
  /\ LET b == calls[i].body
         table == calls[i].row
         nextTurn == NextTurnOf(table)
         nextInning == NextInningOf(table, nextTurn)
     IN  tables' = UpdateTables(b.tableNum,
                     NextTurnRow(tables[b.tableNum], nextTurn, nextInning))
  /\ calls' = [calls EXCEPT ![i] = Responded(@, TurnPassed)]
  /\ UNCHANGED <<games, hist>>
  /\ Sequential

(* endGame: SELECT *, then INSERT INTO games, then the reset UPDATE *)
EndGameSelect(i, b) ==
  /\ Arrives(i)
  /\ LET rows == Rows(b.tableNum) IN
     calls' = [calls EXCEPT ![i] = Suspended("endGame", b, "selected", rows[1])]
  /\ UNCHANGED <<tables, games, hist>>
  /\ Sequential

EndGameInsert(i) ==
  /\ At(i, "endGame", "selected")
  /\ LET b == calls[i].body
         table == calls[i].row
         winner == EndGameWinner(table)
     IN  /\ games' = Append(games, GameRecord(b.tableNum, table, winner))
         /\ hist' = [hist EXCEPT ![b.tableNum].appended =
                       IF hist[b.tableNum].inGame THEN @ + 1 ELSE @]
  /\ calls' = [calls EXCEPT ![i].pc = "inserted"]
  /\ UNCHANGED tables
  /\ Sequential

EndGameUpdate(i) ==
  /\ At(i, "endGame", "inserted")
  /\ LET b == calls[i].body IN
     /\ tables' = UpdateTables(b.tableNum, ResetRow(tables[b.tableNum]))
     /\ hist' = HistReset(b.tableNum)
  /\ calls' = [calls EXCEPT ![i] = Responded(@, Ok("GameEnded"))]
  /\ UNCHANGED games
  /\ Sequential

(* cancelRoom: one UPDATE *)
CancelRoomUpdate(i, b) ==
  /\ Arrives(i)
  /\ tables' = UpdateTables(b.tableNum, ResetRow(tables[b.tableNum]))
  /\ hist' = HistReset(b.tableNum)
  /\ calls' = [calls EXCEPT ![i] =
                 Responded(Suspended("cancelRoom", b, "idle", NULL),
                           Ok("RoomCancelled"))]
  /\ UNCHANGED games
  /\ Sequential

NextConc ==
  \/ \E i \in CallIds, b \in ConcCreateRoomBodies : CreateRoomSelect(i, b)
  \/ \E i \in CallIds : CreateRoomUpdate(i)
  \/ \E i \in CallIds, b \in ConcJoinRoomBodies : JoinRoomSelect(i, b)
  \/ \E i \in CallIds : JoinRoomUpdate(i)
  \/ \E i \in CallIds, b \in ConcApproveJoinBodies : ApproveJoinUpdate(i, b)
  \/ \E i \in CallIds, b \in ConcSetColorsBodies : SetColorsUpdate(i, b)
  \/ \E i \in CallIds, b \in ConcUpdateScoreBodies : UpdateScoreSelect(i, b)
  \/ \E i \in CallIds : UpdateScoreUpdate(i)
  \/ \E i \in CallIds, b \in ConcTableBodies : NextTurnSelect(i, b)
  \/ \E i \in CallIds : NextTurnUpdate(i)
  \/ \E i \in CallIds, b \in ConcTableBodies : EndGameSelect(i, b)
  \/ \E i \in CallIds : EndGameInsert(i)
  \/ \E i \in CallIds : EndGameUpdate(i)
  \/ \E i \in CallIds, b \in ConcTableBodies : CancelRoomUpdate(i, b)

SpecConc == InitConc /\ [][NextConc]_vars

----------------------------------------------------------------------------
(* Properties *)

(* the request names a row of `tables` *)
Exists(b) == Has(b, "tableNum") /\ b.tableNum \in Tables

(* the score and the target of the player whose turn it is *)
TurnScore(t) == IF t.currentTurn = "player1" THEN t.score1 ELSE t.score2

TurnTarget(t) == IF t.currentTurn = "player1" THEN t.target1 ELSE t.target2

(* C1 (as claimed): in every reachable state a table whose status is       *)
(* available has all players, colors, turn and start time null and all     *)
(* scores, targets and the inning 0.                                       *)
C1_AvailableIsZero ==
  \A n \in Tables : tables[n].status = "available" => tables[n] = ZeroTable

C3_JoinRoomFrame ==
  [][req'.op = "joinRoom" => \A b \in JoinRoomBodies :
       JoinRoom(b) =>
          IF b.tableNum \in Tables /\ tables[b.tableNum].status = "waiting"
          THEN /\ res'.success
               /\ tables' = [tables EXCEPT
                               ![b.tableNum].player2 = SqlParam(b, "nickname")]
               /\ tables'[b.tableNum].status = "waiting"
               /\ games' = games
          ELSE /\ Kind(res') = "InvalidState"
               /\ tables' = tables
               /\ games' = games]_vars

C3_Witness ==
  /\ res = Ok("JoinRequested")
  /\ \E n \in Tables :
       /\ tables[n].status = "waiting"
       /\ tables[n].player1 \in Nicknames
       /\ tables[n].player2 \in Nicknames
       /\ tables[n].player2 # tables[n].player1

(* C4: after setColors on a table, the table is occupied with the given    *)
(* colors, inning 1 and a start time; the turn is player2 when color2 is   *)
(* "white" and player1 otherwise, and the response carries the same turn.  *)
C4_SetColorsEffect ==
  [][req'.op = "setColors" => \A b \in SetColorsBodies :
       (SetColors(b) /\ b.tableNum \in Tables) =>
          LET t == tables'[b.tableNum] IN
          /\ t.status = "occupied"
          /\ t.color1 = b.color1
          /\ t.color2 = b.color2
          /\ t.inning = 1
          /\ t.startTime # NULL
          /\ (b.color2 = "white" => t.currentTurn = "player2")
          /\ (b.color2 # "white" => t.currentTurn = "player1")
          /\ res'.success
          /\ res'.currentTurn = t.currentTurn]_vars

C4_Witness ==
  /\ Has(res, "currentTurn")
  /\ res.currentTurn = "player2"
  /\ \E n \in Tables :
       /\ tables[n].status = "occupied"
       /\ tables[n].color2 = "white"
       /\ tables[n].currentTurn = "player2"
       /\ tables[n].inning = 1
       /\ tables[n].player2 # NULL

(* C5: nextTurn on a table with score1 >= target1 reports gameOver with    *)
(* winner player1, also when score2 >= target2 holds too; otherwise, with  *)
(* score2 >= target2, it reports winner player2; in both cases no table    *)
(* field and no game record changes.                                       *)
C5_NextTurnGameOver ==
  [][req'.op = "nextTurn" => \A b \in TableBodies :
       (NextTurn(b) /\ b.tableNum \in Tables) =>
          LET t == tables[b.tableNum] IN
          /\ t.score1 >= t.target1
                => (res' = GameOver("player1") /\ tables' = tables /\ games' = games)
          /\ (t.score1 < t.target1 /\ t.score2 >= t.target2)
                => (res' = GameOver("player2") /\ tables' = tables /\ games' = games)]_vars

C5_Witness ==
  /\ res = GameOver("player1")
  /\ \E n \in Tables :
       /\ tables[n].target1 > 0
       /\ tables[n].target2 > 0
       /\ tables[n].score1 >= tables[n].target1
       /\ tables[n].score2 >= tables[n].target2
       /\ tables[n].status = "occupied"

(* C6: a nextTurn on an occupied table where neither score has reached    *)
(* its target passes the turn to the other player, and the inning grows by *)
(* exactly 1 when the new turn is player1 and stays when it is player2;    *)
(* nothing else changes.  An occupied table always has a turn to pass.     *)
C6_TurnAlternates ==
  /\ [](\A n \in Tables :
          tables[n].status = "occupied"
             => tables[n].currentTurn \in {"player1", "player2"})
  /\ [][req'.op = "nextTurn" => \A b \in TableBodies :
          (NextTurn(b) /\ b.tableNum \in Tables
             /\ tables[b.tableNum].status = "occupied"
             /\ tables[b.tableNum].score1 < tables[b.tableNum].target1
             /\ tables[b.tableNum].score2 < tables[b.tableNum].target2) =>
             LET old == tables[b.tableNum]
                 new == tables'[b.tableNum]
             IN  /\ old.currentTurn = "player1" => new.currentTurn = "player2"
                 /\ old.currentTurn = "player2" => new.currentTurn = "player1"
                 /\ new.currentTurn = "player1" => new.inning = old.inning + 1
                 /\ new.currentTurn = "player2" => new.inning = old.inning
                 /\ tables' = [tables EXCEPT
                                 ![b.tableNum].currentTurn = new.currentTurn,
                                 ![b.tableNum].inning = new.inning]
                 /\ res' = TurnPassed]_vars

C6_Witness ==
  /\ res = TurnPassed
  /\ \E n \in Tables :
       /\ tables[n].status = "occupied"
       /\ tables[n].currentTurn = "player1"
       /\ tables[n].inning = 2

(* C7: every endGame on a table appends exactly one game record, holding   *)
(* the table number and the table's players, scores and start time as     *)
(* they were before the call, and leaves the table in the available zero   *)
(* state; the records already in the log stay as they were.                *)
C7_EndGameAppendsAndResets ==
  [][req'.op = "endGame" => \A b \in TableBodies :
       (EndGame(b) /\ b.tableNum \in Tables) =>
          LET old == tables[b.tableNum] IN
          /\ Len(games') = Len(games) + 1
          /\ SubSeq(games', 1, Len(games)) = games
          /\ games'[Len(games')].tableNum = b.tableNum
          /\ games'[Len(games')].player1 = old.player1
          /\ games'[Len(games')].player2 = old.player2
          /\ games'[Len(games')].score1 = old.score1
          /\ games'[Len(games')].score2 = old.score2
          /\ games'[Len(games')].startTime = old.startTime
          /\ tables'[b.tableNum] = ZeroTable
          /\ res'.success]_vars

C7_Witness ==
  /\ req.op = "endGame"
  /\ Len(games) = 1
  /\ games[1].player1 \in Nicknames
  /\ games[1].player2 \in Nicknames
  /\ games[1].score1 > 0
  /\ games[1].score2 > 0
  /\ games[1].score1 # games[1].score2
  /\ games[1].startTime # NULL
  /\ \A n \in Tables : tables[n] = ZeroTable

(* C8: cancelRoom has no precondition: it can be called on every table in *)
(* every reachable state, and from every status it leaves the table in    *)
(* the available zero state and nothing else changed; a second cancelRoom  *)
(* directly after a cancelRoom on the same table changes nothing.          *)
C8_CancelRoomResets ==
  /\ [](\A n \in Tables : ENABLED CancelRoom([tableNum |-> n]))
  /\ [][req'.op = "cancelRoom" => \A b \in TableBodies :
          (CancelRoom(b) /\ b.tableNum \in Tables) =>
             /\ res'.success
             /\ tables' = [tables EXCEPT ![b.tableNum] = ZeroTable]
             /\ games' = games
             /\ (req.op = "cancelRoom" /\ req.tableNum = b.tableNum)
                   => tables' = tables]_vars

C8_Witness ==
  /\ req.op = "cancelRoom"
  /\ req.tableNum \in Tables
  /\ steps >= 2
  /\ tables[req.tableNum] = ZeroTable

(* C9: in a game started by createRoom, joinRoom, approveJoin, setColors   *)
(* on an available table and continued by updateScore and nextTurn only,   *)
(* an updateScore carrying a score that reaches the target of the player   *)
(* whose turn it is stores that score for that player, and a nextTurn      *)
(* directly after it reports gameOver with that player as the winner.      *)
C9_PosterWins ==
  /\ [](\A n \in Tables :
          setup[n] = "game" =>
             /\ tables[n].status = "occupied"
             /\ tables[n].currentTurn \in {"player1", "player2"}
             /\ tables[n].target1 > 0
             /\ tables[n].target2 > 0)
  /\ [][req'.op = "updateScore" => \A b \in UpdateScoreBodies :
          (UpdateScore(b) /\ b.tableNum \in Tables
             /\ setup[b.tableNum] = "game"
             /\ b.score >= TurnTarget(tables[b.tableNum])) =>
             /\ res'.success
             /\ TurnScore(tables'[b.tableNum]) = b.score
             /\ tables'[b.tableNum].currentTurn = tables[b.tableNum].currentTurn
             /\ TurnTarget(tables'[b.tableNum]) = TurnTarget(tables[b.tableNum])]_vars
  /\ [][req'.op = "nextTurn" => \A b \in TableBodies :
          (NextTurn(b) /\ b.tableNum \in Tables
             /\ setup[b.tableNum] = "game"
             /\ req.op = "updateScore" /\ req.tableNum = b.tableNum
             /\ TurnScore(tables[b.tableNum]) >= TurnTarget(tables[b.tableNum])) =>
             res' = GameOver(tables[b.tableNum].currentTurn)]_vars

C9_Witness ==
  /\ req.op = "nextTurn"
  /\ req.tableNum \in Tables
  /\ setup[req.tableNum] = "game"
  /\ res = GameOver("player2")
  /\ tables[req.tableNum].currentTurn = "player2"
  /\ tables[req.tableNum].score2 >= tables[req.tableNum].target2
  /\ tables[req.tableNum].score1 = 0

(* C10 (as claimed): a table's status changes only from available to       *)
(* waiting, from waiting to occupied, from occupied to available and from  *)
(* waiting to available; only setColors makes a table occupied, and only   *)
(* from waiting.                                                           *)
C10_Lifecycle ==
  [][\A n \in Tables :
       /\ tables'[n].status # tables[n].status =>
             <<tables[n].status, tables'[n].status>> \in
                {<<"available", "waiting">>, <<"waiting", "occupied">>,
                 <<"occupied", "available">>, <<"waiting", "available">>}
       /\ (tables'[n].status = "occupied" /\ req'.op = "setColors")
             => tables[n].status = "waiting"
       /\ (tables'[n].status = "occupied" /\ tables[n].status # "occupied")
             => req'.op = "setColors"]_vars

(* C11 (as claimed): in every reachable state an occupied table has both   *)
(* players set, and a table with exactly one of the two players unset is   *)
(* waiting.                                                                *)
C11_PlayersSet ==
  \A n \in Tables :
    /\ tables[n].status = "occupied"
          => (tables[n].player1 # NULL /\ tables[n].player2 # NULL)
    /\ ((tables[n].player1 = NULL) # (tables[n].player2 = NULL))
          => tables[n].status = "waiting"

(* C12: updateScore on a table stores the given score, replacing the old   *)
(* one, in score1 when the turn is player1 and in score2 otherwise (also   *)
(* when the turn is null); it succeeds whatever the target is and changes  *)
(* no other field, no other table and no game record.                      *)
C12_UpdateScoreFrame ==
  [][req'.op = "updateScore" => \A b \in UpdateScoreBodies :
       (UpdateScore(b) /\ b.tableNum \in Tables) =>
          /\ res'.success
          /\ tables[b.tableNum].currentTurn = "player1"
                => tables' = [tables EXCEPT ![b.tableNum].score1 = b.score]
          /\ tables[b.tableNum].currentTurn # "player1"
                => tables' = [tables EXCEPT ![b.tableNum].score2 = b.score]
          /\ games' = games]_vars

C12_Witness ==
  /\ req.op = "updateScore"
  /\ res = Ok("ScoreUpdated")
  /\ \E n \in Tables :
       /\ tables[n].status = "occupied"
       /\ tables[n].currentTurn = "player1"
       /\ tables[n].target1 > 0
       /\ tables[n].score1 > tables[n].target1
       /\ tables[n].score2 > 0

(* C13: when nextTurn has reported gameOver with winner role R on a table  *)
(* and the very next request is endGame on that table, the winner stored   *)
(* in the appended game record is the nickname the table held for role R.  *)
C13_EndGameWinnerAgrees ==
  [][(req.op = "nextTurn" /\ Has(res, "winner") /\ req'.op = "endGame") =>
       \A b \in TableBodies :
         (EndGame(b) /\ b.tableNum \in Tables /\ b.tableNum = req.tableNum) =>
            /\ Len(games') = Len(games) + 1
            /\ games'[Len(games')].winner = tables[b.tableNum][res.winner]]_vars

C13_Witness ==
  /\ req.op = "endGame"
  /\ res = Ok("GameEnded")
  /\ Len(games) = 1
  /\ games[1].player1 \in Nicknames
  /\ games[1].player2 \in Nicknames
  /\ games[1].player1 # games[1].player2
  /\ games[1].winner = games[1].player2
  /\ games[1].score1 = 0
  /\ games[1].score2 > 0
  /\ games[1].startTime # NULL

(* C14 (as claimed): between the setColors that starts a game on a table  *)
(* and the table's next reset, at most one game record is inserted for the *)
(* table, also when endGame calls overlap.                                 *)
C14_OneRecordPerGame ==
  \A n \in Tables : hist[n].appended <= 1

(* C15 (as claimed): approveJoin has run before a table becomes occupied,  *)
(* so both targets are positive in every occupied state.                   *)
C15_TargetsPositive ==
  \A n \in Tables :
    tables[n].status = "occupied"
       => (tables[n].target1 > 0 /\ tables[n].target2 > 0)

(* C16: the second query of joinRoom is unconditional: whatever the table  *)
(* holds by then, it stores the call's own nickname in player2, changes    *)
(* nothing else and the call answers success.  Two overlapping joinRoom    *)
(* calls that both read waiting therefore both succeed and the later       *)
(* write's nickname replaces the earlier one.                              *)
C16_JoinRoomLastWriteWins ==
  [][\A i \in CallIds :
       JoinRoomUpdate(i) =>
          /\ tables' = [tables EXCEPT
                          ![calls[i].body.tableNum].player2 = calls[i].body.nickname]
          /\ calls'[i].res.success
          /\ calls'[i].pc = "done"
          /\ games' = games]_vars

C16_Witness ==
  \E i, j \in CallIds :
    /\ At(i, "joinRoom", "done") /\ At(j, "joinRoom", "done")
    /\ calls[i].res.success /\ calls[j].res.success
    /\ calls[i].body.nickname # calls[j].body.nickname
    /\ \A k \in CallIds \ {i, j} : calls[k].pc = "idle"
    /\ tables[5].status = "waiting"
    /\ tables[5].player2 = calls[j].body.nickname

(* C17: the second query of nextTurn stores the turn and the inning that   *)
(* were computed from the row the call read, not from the row the table    *)
(* holds by then.  Two overlapping calls that read the same row thus leave *)
(* the turn flipped once, where the same two calls one after the other     *)
(* flip it twice and advance the inning.                                   *)
C17_NextTurnWritesFromRead ==
  [][\A i \in CallIds :
       NextTurnUpdate(i) =>
          LET t == calls[i].body.tableNum
              read == calls[i].row
              turn == IF read.currentTurn = "player1" THEN "player2" ELSE "player1"
          IN  tables' = [tables EXCEPT
                           ![t].currentTurn = turn,
                           ![t].inning = IF turn = "player1" THEN read.inning + 1
                                         ELSE read.inning]]_vars

C17_Witness ==
  /\ At(1, "nextTurn", "done") /\ At(2, "nextTurn", "done")
  /\ calls[1].res = TurnPassed /\ calls[2].res = TurnPassed
  /\ calls[1].row = calls[2].row
  /\ calls[1].row = Columns(PlayingRow, NextTurnColumns)
  /\ \A k \in CallIds \ {1, 2} : calls[k].pc = "idle"
  /\ tables[5].status = "occupied"
  /\ tables[5].currentTurn = NextTurnOf(PlayingRow)
  /\ tables[5].inning = NextInningOf(PlayingRow, NextTurnOf(PlayingRow))
  /\ <<tables[5].currentTurn, tables[5].inning>>
       # <<PlayingRow.currentTurn, PlayingRow.inning + 1>>

(* C18 (as claimed): while a table stays occupied and only nextTurn and    *)
(* updateScore calls run on it, overlapping in any way, no step lowers the *)
(* inning or raises it by more than 1.                                     *)
C18_InningMonotone ==
  [][(\A i \in CallIds : calls'[i].op \in {"none", "nextTurn", "updateScore"}) =>
       \A n \in Tables :
         (tables[n].status = "occupied" /\ tables'[n].status = "occupied")
            => tables'[n].inning \in {tables[n].inning, tables[n].inning + 1}]_vars

(* C19 (as claimed): every game record in the log has non-null players and *)
(* start time and a non-null winner that is one of its two players.        *)
C19_RecordsComplete ==
  \A i \in 1..Len(games) :
    /\ games[i].player1 # NULL
    /\ games[i].player2 # NULL
    /\ games[i].startTime # NULL
    /\ games[i].winner # NULL
    /\ games[i].winner \in {games[i].player1, games[i].player2}

(* C20 (as claimed): since the last reset of a table at most one           *)
(* createRoom has answered success, and the table's player1 is that        *)
(* caller's nickname, also when createRoom calls overlap.                  *)
C20_OneCreator ==
  \A n \in Tables :
    /\ Len(hist[n].creators) <= 1
    /\ Len(hist[n].creators) = 1 => tables[n].player1 = hist[n].creators[1]

====
